---- MODULE Spec2Model ----
(***************************************************************************)
(* A model of the two scripts of genai-fundamentals:                       *)
(*   text2cypher_rag.py   (schema-guided query translation)                *)
(*   vector_cypher_rag.py (vector search plus graph traversal)             *)
(* Each script is a straight line of statements: open the driver, build    *)
(* the retriever and the GraphRAG pipeline, call rag.search, print, close. *)
(* The external services (Neo4j, the embedding service, the language       *)
(* models) are the environment: every call to one either returns a value   *)
(* drawn from a small set or raises.                                       *)
(***************************************************************************)
EXTENDS Integers, Sequences, FiniteSets, TLC

VARIABLES
    variant,     \* which script runs
    pc,          \* the statement (or pipeline step) about to run
    rag,         \* the pipeline object: <<>> or <<[orchestrator, retriever, llm]>>
    driver,      \* "none" | "open" | "closed"
    closeCalls,  \* number of driver.close() invocations
    trace,       \* the calls and outputs performed so far, in order
    failedAt,    \* the step whose exception ended the run, "" if none
    config,      \* the options rag.search was called with
    cypher,      \* text2cypher: the query string the generation model returned
    executed,    \* the query strings executed against the database
    retrieved,   \* the retriever's result: <<>> or <<[items, metadata]>>
    context,     \* the context the synthesis prompt was built from: <<>> or <<items>>
    answer,      \* the synthesis model's completion: <<>> or <<text>>
    response,    \* what rag.search returned: <<>> or <<[answer, retriever_result]>>
    stdout       \* what the script printed

vars == <<variant, pc, rag, driver, closeCalls, trace, failedAt, config, cypher,
          executed, retrieved, context, answer, response, stdout>>

----------------------------------------------------------------------------
(* Bounds of the environment *)

NumMovies == 6      \* Movie nodes the database may hold
MaxRated == 6       \* RATED relationships the database may hold
MaxRows == 2        \* rows a generated query may return

(* Program constants *)

top_k == 5

Variants == {"text2cypher", "vector"}

query_text ==
    [v \in Variants |->
        IF v = "text2cypher"
        THEN "What year was the movie Babe released?"
        ELSE "Find the highest rated action movie about travelling to other planets"]

(* A value that may be absent (Python's None) is a sequence of length 0 or 1. *)
None == <<>>
Some(x) == <<x>>

(* Reading the trace *)
Count(seq, e) == Cardinality({ i \in 1..Len(seq) : seq[i] = e })
Project(seq, S) == SelectSeq(seq, LAMBDA e : e \in S)
IsPrefix(s, t) == Len(s) <= Len(t) /\ \A i \in 1..Len(s) : s[i] = t[i]
Last(seq) == seq[Len(seq)]

----------------------------------------------------------------------------
(* The environment of the query-translation script *)

\* Completions the generation model may return for the prompt built from the
\* question, neo4j_schema and examples: the expected read query, a destructive
\* query outside the declared use, and a syntactically invalid string.
GeneratedQueries ==
    { "MATCH (m:Movie {title: 'Babe'}) RETURN m.released",
      "MATCH (m:Movie) DETACH DELETE m",
      "MATCH (m:Movie RETURN m.released" }

\* The database rejects these with an execution error.
InvalidQueries == { "MATCH (m:Movie RETURN m.released" }

RowValues == { "{m.released: 1995}", "{m.released: 1996}" }

RECURSIVE SeqsUpTo(_, _)
SeqsUpTo(S, n) ==
    IF n = 0 THEN { <<>> }
    ELSE LET shorter == SeqsUpTo(S, n - 1)
         IN  shorter \cup { Append(s, x) : s \in shorter, x \in S }

\* Result rows the database may return for a valid query.
ResultRows == SeqsUpTo(RowValues, MaxRows)

Answers == { "The movie Babe was released in 1995.", "I don't know." }

----------------------------------------------------------------------------
(* Failure: no statement of either script sits inside a try block, so an   *)
(* exception raised by any call ends the run with the uncaught failure.    *)

\* The steps that call out of the process and may raise.
Fallible ==
    { "open", "build", "t2c_generate", "t2c_execute", "embed", "vquery",
      "synthesize" }

\* What each step records in the trace when it is performed.
EventOf(step) ==
    CASE step = "open"          -> "driver.open"
      [] step = "build"         -> "build"
      [] step = "call"          -> "rag.search"
      [] step = "retrieve"      -> "retriever.search"
      [] step = "t2c_generate"  -> "llm.generate_cypher"
      [] step = "t2c_execute"   -> "db.execute"
      [] step = "embed"         -> "embedder.embed_query"
      [] step = "vquery"        -> "db.vector_query"
      [] step = "prompt"        -> "prompt"
      [] step = "synthesize"    -> "llm.synthesize"
      [] step = "package"       -> "package"
      [] step = "print_answer"  -> "print.answer"
      [] step = "print_cypher"  -> "print.cypher"
      [] step = "print_context" -> "print.context"
      [] step = "close"         -> "driver.close"

\* Variant: a read-only guard replaces a query that writes.
QueryToRunReadOnly(q) == IF q = "MATCH (m:Movie) DETACH DELETE m" THEN "RETURN null" ELSE q

\* The string handed to the driver for a generated query: the query itself.
QueryToRun(q) == q

\* Variant: the statements sit in a try block whose finally clause closes the driver.
AfterRaiseFinally(step) == "close"

\* Variant: the exception is caught and dropped, and the script runs to its end.
AfterRaiseSwallowed(step) == "done"

\* Where control goes when `step` raises: nothing catches it.
AfterRaise(step) == "crashed"

\* Variant: a call that raises is made again.
RaiseRetried ==
    /\ pc \in Fallible
    /\ Count(trace, EventOf(pc)) = 0
    /\ trace' = Append(trace, EventOf(pc))
    /\ UNCHANGED <<variant, pc, rag, driver, closeCalls, failedAt, config, cypher,
                   executed, retrieved, context, answer, response, stdout>>

Raise ==
    /\ pc \in Fallible
    /\ pc' = AfterRaise(pc)
    /\ failedAt' = pc
    /\ trace' = Append(trace, EventOf(pc))
    /\ executed' = IF pc = "t2c_execute" THEN Append(executed, QueryToRun(cypher[1]))
                   ELSE executed
    /\ UNCHANGED <<variant, rag, driver, closeCalls, config, cypher,
                   retrieved, context, answer, response, stdout>>

----------------------------------------------------------------------------
(* The statements of the scripts before rag.search *)

NoConfig == [query_text |-> "", return_context |-> FALSE, top_k |-> None]

Init ==
    /\ variant \in Variants
    /\ pc = "open"
    /\ rag = None
    /\ driver = "none"
    /\ closeCalls = 0
    /\ trace = <<>>
    /\ failedAt = ""
    /\ config = NoConfig
    /\ cypher = None
    /\ executed = <<>>
    /\ retrieved = None
    /\ context = None
    /\ answer = None
    /\ response = None
    /\ stdout = <<>>

\* driver = GraphDatabase.driver(uri, auth=(user, password))
OpenDriver ==
    /\ pc = "open"
    /\ driver' = "open"
    /\ trace' = Append(trace, EventOf("open"))
    /\ pc' = "build"
    /\ UNCHANGED <<variant, rag, closeCalls, failedAt, config, cypher, executed,
                   retrieved, context, answer, response, stdout>>

\* The retriever each script constructs.
RetrieverOf(v) ==
    IF v = "text2cypher" THEN "Text2CypherRetriever" ELSE "VectorCypherRetriever"

\* Variant: the vector script drives its retriever through a pipeline class of its own.
PipelinePerRetriever(v) ==
    [orchestrator |-> IF v = "vector" THEN "VectorRAG" ELSE "GraphRAG",
     retriever |-> RetrieverOf(v), llm |-> "OpenAILLM(gpt-4o)"]

\* rag = GraphRAG(retriever=retriever, llm=llm), llm = OpenAILLM(model_name="gpt-4o")
Pipeline(v) ==
    [orchestrator |-> "GraphRAG", retriever |-> RetrieverOf(v), llm |-> "OpenAILLM(gpt-4o)"]

\* The model clients, the retriever and the pipeline are constructed.
BuildPipeline ==
    /\ pc = "build"
    /\ rag' = Some(Pipeline(variant))
    /\ trace' = Append(trace, EventOf("build"))
    /\ pc' = "call"
    /\ UNCHANGED <<variant, driver, closeCalls, failedAt, config, cypher,
                   executed, retrieved, context, answer, response, stdout>>

\* The keyword arguments each script passes to rag.search.
SearchConfig(v) ==
    IF v = "vector"
    THEN [query_text |-> query_text[v], return_context |-> TRUE, top_k |-> Some(top_k)]
    ELSE [query_text |-> query_text[v], return_context |-> TRUE, top_k |-> None]

\* response = rag.search(query_text=query_text, ...): control enters the orchestrator
CallSearch ==
    /\ pc = "call"
    /\ config' = SearchConfig(variant)
    /\ trace' = Append(trace, EventOf("call"))
    /\ pc' = "retrieve"
    /\ UNCHANGED <<variant, rag, driver, closeCalls, failedAt, cypher, executed,
                   retrieved, context, answer, response, stdout>>

----------------------------------------------------------------------------
(* The environment of the vector-plus-traversal script: the moviePlots     *)
(* index and the RATED relationships of the graph.                         *)

Min(a, b) == IF a < b THEN a ELSE b

RECURSIVE Factorial(_)
Factorial(n) == IF n = 0 THEN 1 ELSE n * Factorial(n - 1)

\* Movie node m is the m-th nearest neighbour of the query vector; two nodes
\* may carry the same title, plot, genres, actors and embedding (a duplicated
\* movie), in which case every column the query returns for them is equal.
\* `title` stands for all the columns that are read off the node itself.
Title(m, dup) == IF dup /\ m = 2 THEN 1 ELSE m
Score(m, dup) == NumMovies + 1 - Title(m, dup)

\* CALL db.index.vector.queryNodes(index_name, top_k, query_vector) YIELD node, score:
\* the k nearest of the n indexed nodes, each with its similarity score.
VectorIndexSearch(n, k, dup) ==
    { [node |-> m, title |-> Title(m, dup), score |-> Score(m, dup)] : m \in 1..Min(n, k) }

\* The values RATED.rating takes.
RatingValues == <<1, 2>>

\* A RATED relationship into movie m with rating v. Relationships are told
\* apart only by (m, v); a bag of them is a nondecreasing sequence of pair numbers.
RatedPair(i) ==
    [movie  |-> ((i - 1) \div Len(RatingValues)) + 1,
     rating |-> RatingValues[((i - 1) % Len(RatingValues)) + 1]]

RECURSIVE BagsFrom(_, _, _)
BagsFrom(lo, hi, n) ==
    IF n = 0 THEN { <<>> }
    ELSE { <<>> } \cup
         UNION { { <<i>> \o s : s \in BagsFrom(i, hi, n - 1) } : i \in lo..hi }

\* The bags of at most MaxRated RATED relationships into the movies 1..k.
\* (A relationship into a movie the index search did not return never matches
\* the retrieval query's pattern, whose node is bound to a candidate.)
RatedInto(k) == BagsFrom(1, k * Len(RatingValues), MaxRated)

----------------------------------------------------------------------------
(* retrieval_query, as the database evaluates it over the candidate rows   *)

\* MATCH (node) <-[r:RATED]-(): one row per candidate and RATED relationship
\* into it; a candidate with no rating yields no row.
MatchRated(cands, rels) ==
    UNION { { [node |-> c, r |-> j, rating |-> RatedPair(rels[j]).rating] :
                j \in { j \in 1..Len(rels) : RatedPair(rels[j]).movie = c.node } } :
            c \in cands }

RECURSIVE SumRatings(_)
SumRatings(rows) ==
    IF rows = {} THEN 0
    ELSE LET row == CHOOSE row \in rows : TRUE
         IN  row.rating + SumRatings(rows \ {row})

\* avg(r.rating) over one group of rows. The average is kept exact: it is
\* scaled by Scale, which every possible group size divides.
Scale == Factorial(MaxRated)
Avg(rows) == (Scale * SumRatings(rows)) \div Cardinality(rows)

\* The grouping key of a row: the RETURN items that are not aggregates
\* (title, plot, similarityScore, genres, actors).
GroupKey(row) == [title |-> row.node.title, similarityScore |-> row.node.score]

\* Variant: r.rating is returned without avg(), so nothing is grouped and
\* every matched row is returned.
ReturnRowsPerRating(rows) ==
    { [title |-> row.node.title, similarityScore |-> row.node.score,
       userRating |-> Scale * row.rating] : row \in rows }

\* RETURN node.title AS title, ..., score AS similarityScore, ..., avg(r.rating) AS userRating:
\* one record per grouping key.
ReturnRows(rows) ==
    { [title |-> k.title, similarityScore |-> k.similarityScore,
       userRating |-> Avg({ row \in rows : GroupKey(row) = k })] :
        k \in { GroupKey(row) : row \in rows } }

\* Variant: ORDER BY userRating without DESC sorts ascending.
RECURSIVE OrderByAsc(_)
OrderByAsc(records) ==
    IF records = {} THEN { <<>> }
    ELSE UNION { { <<x>> \o s : s \in OrderByAsc(records \ {x}) } :
                 x \in { x \in records : \A y \in records : x.userRating <= y.userRating } }

\* ORDER BY userRating DESC: every ordering of the records in which userRating
\* never increases (the order among equal ratings is the database's choice).
RECURSIVE OrderByDesc(_)
OrderByDesc(records) ==
    IF records = {} THEN { <<>> }
    ELSE UNION { { <<x>> \o s : s \in OrderByDesc(records \ {x}) } :
                 x \in { x \in records : \A y \in records : x.userRating >= y.userRating } }

\* The result lists the database may return for retrieval_query.
retrieval_query(cands, rels) == OrderByDesc(ReturnRows(MatchRated(cands, rels)))

----------------------------------------------------------------------------
(* rag.search: the orchestrator and the two retrievers *)

\* GraphRAG.search calls retriever.search(query_text=query_text, **retriever_config)
InvokeRetriever ==
    /\ pc = "retrieve"
    /\ trace' = Append(trace, EventOf("retrieve"))
    /\ pc' = IF variant = "text2cypher" THEN "t2c_generate" ELSE "embed"
    /\ UNCHANGED <<variant, rag, driver, closeCalls, failedAt, config, cypher,
                   executed, retrieved, context, answer, response, stdout>>

\* Text2CypherRetriever: t2c_llm completes the prompt made of the question,
\* neo4j_schema and examples.
GenerateCypher ==
    /\ pc = "t2c_generate"
    /\ \E q \in GeneratedQueries : cypher' = Some(q)
    /\ trace' = Append(trace, EventOf("t2c_generate"))
    /\ pc' = "t2c_execute"
    /\ UNCHANGED <<variant, rag, driver, closeCalls, failedAt, config, executed,
                   retrieved, context, answer, response, stdout>>

\* Text2CypherRetriever: the driver executes the generated query; its rows
\* are the context items and the query is reported as metadata["cypher"].
ExecuteCypher ==
    /\ pc = "t2c_execute"
    /\ QueryToRun(cypher[1]) \notin InvalidQueries
    /\ executed' = Append(executed, QueryToRun(cypher[1]))
    /\ \E rows \in ResultRows :
          retrieved' = Some([items |-> rows, metadata |-> ("cypher" :> cypher[1])])
    /\ trace' = Append(trace, EventOf("t2c_execute"))
    /\ pc' = "prompt"
    /\ UNCHANGED <<variant, rag, driver, closeCalls, failedAt, config, cypher,
                   context, answer, response, stdout>>

\* VectorCypherRetriever: embedder.embed_query(query_text)
EmbedQuery ==
    /\ pc = "embed"
    /\ trace' = Append(trace, EventOf("embed"))
    /\ pc' = "vquery"
    /\ UNCHANGED <<variant, rag, driver, closeCalls, failedAt, config, cypher,
                   executed, retrieved, context, answer, response, stdout>>

\* VectorCypherRetriever: one database query, the index search followed by
\* retrieval_query; its records, in order, are the context items.
VectorQuery ==
    /\ pc = "vquery"
    /\ \E cands \in { VectorIndexSearch(n, config.top_k[1], dup) :
                        n \in 0..NumMovies, dup \in BOOLEAN } :
          \E rels \in RatedInto(Cardinality(cands)) :
             \E result \in retrieval_query(cands, rels) :
                retrieved' = Some([items |-> result, metadata |-> <<>>])
    /\ executed' = Append(executed, "moviePlots + retrieval_query")
    /\ trace' = Append(trace, EventOf("vquery"))
    /\ pc' = "prompt"
    /\ UNCHANGED <<variant, rag, driver, closeCalls, failedAt, config, cypher,
                   context, answer, response, stdout>>

\* GraphRAG.search: the prompt is built from the question and the context items.
BuildPrompt ==
    /\ pc = "prompt"
    /\ context' = Some(retrieved[1].items)
    /\ trace' = Append(trace, EventOf("prompt"))
    /\ pc' = "synthesize"
    /\ UNCHANGED <<variant, rag, driver, closeCalls, failedAt, config, cypher,
                   executed, retrieved, answer, response, stdout>>

\* GraphRAG.search: llm completes the prompt.
Synthesize ==
    /\ pc = "synthesize"
    /\ \E a \in Answers : answer' = Some(a)
    /\ trace' = Append(trace, EventOf("synthesize"))
    /\ pc' = "package"
    /\ UNCHANGED <<variant, rag, driver, closeCalls, failedAt, config, cypher,
                   executed, retrieved, context, response, stdout>>

\* Variant: the retriever's result is attached whatever return_context says.
AttachedContextAlways(return_context, result) == result

\* The retriever_result attribute of the response.
AttachedContext(return_context, result) == IF return_context THEN result ELSE None

\* GraphRAG.search returns the answer, with the retriever's result when asked to.
Package ==
    /\ pc = "package"
    /\ response' = Some([answer |-> answer[1],
                         retriever_result |-> AttachedContext(config.return_context, retrieved)])
    /\ trace' = Append(trace, EventOf("package"))
    /\ pc' = "print_answer"
    /\ UNCHANGED <<variant, rag, driver, closeCalls, failedAt, config, cypher,
                   executed, retrieved, context, answer, stdout>>

----------------------------------------------------------------------------
(* The statements of the scripts after rag.search *)

\* print(response.answer)
PrintAnswer ==
    /\ pc = "print_answer"
    /\ stdout' = Append(stdout, [label |-> "ANSWER", value |-> response[1].answer])
    /\ trace' = Append(trace, EventOf("print_answer"))
    /\ pc' = IF variant = "text2cypher" THEN "print_cypher" ELSE "print_context"
    /\ UNCHANGED <<variant, rag, driver, closeCalls, failedAt, config, cypher,
                   executed, retrieved, context, answer, response>>

\* print("CYPHER :", response.retriever_result.metadata["cypher"])
PrintCypher ==
    /\ pc = "print_cypher"
    /\ LET rr == response[1].retriever_result
       IN  IF Len(rr) = 0 \/ "cypher" \notin DOMAIN rr[1].metadata
           THEN /\ pc' = AfterRaise("print_cypher")
                /\ failedAt' = "print_cypher"
                /\ UNCHANGED <<stdout, trace>>
           ELSE /\ stdout' = Append(stdout, [label |-> "CYPHER :", value |-> rr[1].metadata["cypher"]])
                /\ trace' = Append(trace, EventOf("print_cypher"))
                /\ pc' = "print_context"
                /\ UNCHANGED failedAt
    /\ UNCHANGED <<variant, rag, driver, closeCalls, config, cypher, executed,
                   retrieved, context, answer, response>>

\* Variant: the script stops early when the context is empty.
PrintContextExitOnEmpty ==
    /\ pc = "print_context"
    /\ LET rr == response[1].retriever_result
       IN  IF rr[1].items = <<>>
           THEN /\ pc' = "done"
                /\ UNCHANGED <<stdout, trace>>
           ELSE /\ stdout' = Append(stdout, [label |-> "CONTEXT:", value |-> rr[1].items])
                /\ trace' = Append(trace, EventOf("print_context"))
                /\ pc' = "close"
    /\ UNCHANGED <<variant, rag, driver, closeCalls, failedAt, config, cypher,
                   executed, retrieved, context, answer, response>>

\* print("CONTEXT:", response.retriever_result.items)
PrintContext ==
    /\ pc = "print_context"
    /\ LET rr == response[1].retriever_result
       IN  IF Len(rr) = 0
           THEN /\ pc' = AfterRaise("print_context")
                /\ failedAt' = "print_context"
                /\ UNCHANGED <<stdout, trace>>
           ELSE /\ stdout' = Append(stdout, [label |-> "CONTEXT:", value |-> rr[1].items])
                /\ trace' = Append(trace, EventOf("print_context"))
                /\ pc' = "close"
                /\ UNCHANGED failedAt
    /\ UNCHANGED <<variant, rag, driver, closeCalls, config, cypher, executed,
                   retrieved, context, answer, response>>

\* driver.close()
CloseDriver ==
    /\ pc = "close"
    /\ driver' = "closed"
    /\ closeCalls' = closeCalls + 1
    /\ trace' = Append(trace, EventOf("close"))
    /\ pc' = "done"
    /\ UNCHANGED <<variant, rag, failedAt, config, cypher, executed, retrieved,
                   context, answer, response, stdout>>

----------------------------------------------------------------------------
(* A run of either script *)

Next ==
    \/ OpenDriver
    \/ BuildPipeline
    \/ CallSearch
    \/ InvokeRetriever
    \/ GenerateCypher
    \/ ExecuteCypher
    \/ EmbedQuery
    \/ VectorQuery
    \/ BuildPrompt
    \/ Synthesize
    \/ Package
    \/ PrintAnswer
    \/ PrintCypher
    \/ PrintContext
    \/ CloseDriver
    \/ Raise

Spec == Init /\ [][Next]_vars

----------------------------------------------------------------------------
(* rag.search on its own: the orchestrator called with either value of     *)
(* return_context, from the state in which the scripts call it.            *)

InitSearch ==
    /\ variant \in Variants
    /\ pc = "retrieve"
    /\ rag = Some(Pipeline(variant))
    /\ driver = "open"
    /\ closeCalls = 0
    /\ trace = <<EventOf("open"), EventOf("build"), EventOf("call")>>
    /\ failedAt = ""
    /\ \E rc \in BOOLEAN : config = [SearchConfig(variant) EXCEPT !.return_context = rc]
    /\ cypher = None
    /\ executed = <<>>
    /\ retrieved = None
    /\ context = None
    /\ answer = None
    /\ response = None
    /\ stdout = <<>>

NextSearch ==
    \/ InvokeRetriever
    \/ GenerateCypher
    \/ ExecuteCypher
    \/ EmbedQuery
    \/ VectorQuery
    \/ BuildPrompt
    \/ Synthesize
    \/ Package
    \/ Raise

SpecSearch == InitSearch /\ [][NextSearch]_vars

----------------------------------------------------------------------------
(* Properties *)

\* The positions of a script after rag.search has returned.
Returned == { "print_answer", "print_cypher", "print_context", "close", "done" }

Items == retrieved[1].items

\* C1 (as stated): in every finished run in which rag.search was called,
\* whether it returned or raised, driver.close was invoked exactly once.
C1_CloseAfterAnySearch ==
    (pc \in { "done", "crashed" } /\ Count(trace, EventOf("call")) = 1)
        => (closeCalls = 1 /\ driver = "closed")

\* C1 (amended): driver.close is never invoked more than once; a run in which
\* rag.search returned and the prints completed ends with exactly one
\* driver.close, after the retrieval and as the last step; a run in which a
\* call raised ends without driver.close having been invoked at all.
C1_CloseOnceOnSuccessOnly ==
    /\ closeCalls <= 1
    /\ closeCalls = Count(trace, EventOf("close"))
    /\ pc = "done" =>
          /\ closeCalls = 1 /\ driver = "closed" /\ failedAt = ""
          /\ Last(trace) = EventOf("close")
          /\ Count(trace, EventOf("retrieve")) = 1
          /\ Len(response) = 1
    /\ failedAt # "" => (pc = "crashed" /\ closeCalls = 0 /\ driver # "closed")

C1_Witness ==
    /\ pc = "crashed" /\ failedAt = "vquery" /\ driver = "open"
    /\ Count(trace, EventOf("retrieve")) = 1

\* C2: when rag.search has returned, the response carries the retriever's
\* result (items and metadata) if and only if return_context was enabled, and
\* then it is the retriever's result unchanged.
C2_ContextIffReturnContext ==
    Len(response) = 1 =>
        /\ (Len(response[1].retriever_result) = 1) <=> config.return_context
        /\ config.return_context => response[1].retriever_result = retrieved

C2_Witness ==
    /\ Len(response) = 1 /\ ~config.return_context
    /\ Len(retrieved) = 1 /\ Len(Items) > 0
    /\ response[1].retriever_result = None

\* C3: the vector-plus-traversal retriever called with top_k = 5 returns at
\* most 5 context items, and no two items stand for the same candidate.
C3_AtMostTopKItems ==
    (variant = "vector" /\ Len(retrieved) = 1) =>
        /\ Len(Items) <= top_k
        /\ \A i, j \in 1..Len(Items) :
              (Items[i].title = Items[j].title
                 /\ Items[i].similarityScore = Items[j].similarityScore) => i = j

C3_Witness ==
    /\ variant = "vector" /\ Len(retrieved) = 1
    /\ Len(Items) = top_k

\* C4: the context items of the vector-plus-traversal retriever are in
\* descending order of userRating over the whole list, each item has a
\* similarityScore, and the response hands the list on in that order.
C4_OrderedByUserRatingDesc ==
    (variant = "vector" /\ Len(retrieved) = 1) =>
        /\ \A i, j \in 1..Len(Items) : i < j => Items[i].userRating >= Items[j].userRating
        /\ \A i \in 1..Len(Items) :
              /\ "similarityScore" \in DOMAIN Items[i]
              /\ Items[i].similarityScore \in 1..NumMovies
        /\ Len(response) = 1 => response[1].retriever_result[1].items = Items

C4_Witness ==
    /\ variant = "vector" /\ Len(response) = 1
    /\ Len(Items) >= 3
    /\ Items[1].userRating > Items[2].userRating
    /\ Items[2].userRating > Items[3].userRating
    /\ Items[1].similarityScore < Items[2].similarityScore

\* The steps of GraphRAG.search, in order.
OrchestratorSteps ==
    << EventOf("retrieve"), EventOf("prompt"), EventOf("synthesize"), EventOf("package") >>

Range(seq) == { seq[i] : i \in 1..Len(seq) }

\* C6: with either retriever the pipeline object is the same orchestrator
\* built from (retriever, llm), rag.search takes the same options, and a
\* search that returns has performed the same steps in the same order:
\* retrieve, build the prompt, synthesize, package.
C6_SameOrchestratorForBothRetrievers ==
    /\ Len(rag) = 1 =>
          /\ rag[1].orchestrator = "GraphRAG"
          /\ rag[1].retriever = RetrieverOf(variant)
          /\ rag[1].llm = "OpenAILLM(gpt-4o)"
    /\ DOMAIN config = { "query_text", "return_context", "top_k" }
    /\ IsPrefix(Project(trace, Range(OrchestratorSteps)), OrchestratorSteps)
    /\ Len(response) = 1 => Project(trace, Range(OrchestratorSteps)) = OrchestratorSteps

C6_Witness ==
    /\ variant = "vector" /\ pc = "done"
    /\ rag[1].retriever = "VectorCypherRetriever"
    /\ Project(trace, Range(OrchestratorSteps)) = OrchestratorSteps

\* C7: once a call has raised, the run has ended with that failure: the
\* failing call is the last thing that happened, nothing was printed, no
\* response exists, the driver was not closed, and no step follows.
C7_NoLocalRecovery ==
    /\ [](failedAt # "" =>
            /\ pc = "crashed"
            /\ failedAt \in Fallible
            /\ Last(trace) = EventOf(failedAt)
            /\ stdout = <<>>
            /\ response = None
            /\ closeCalls = 0)
    /\ [][failedAt = ""]_vars

C7_Witness ==
    /\ pc = "crashed" /\ failedAt = "synthesize"
    /\ Len(retrieved) = 1 /\ Len(context) = 1
    /\ stdout = <<>>

\* The calls out of the process.
ExternalCalls ==
    { EventOf("open"), EventOf("t2c_generate"), EventOf("t2c_execute"), EventOf("embed"),
      EventOf("vquery"), EventOf("synthesize"), EventOf("close") }

Milestones ==
    << EventOf("open"), EventOf("retrieve"), EventOf("synthesize"), EventOf("print_answer"),
       EventOf("close") >>

C9_EmptyContextNotSpecialCased ==
    (Len(retrieved) = 1 /\ Items = <<>>) =>
        /\ pc \in { "prompt", "synthesize", "package", "crashed" } \cup Returned
        /\ pc \in ({ "synthesize", "package" } \cup Returned) => context = Some(<<>>)
        /\ pc \in ({ "package" } \cup Returned) =>
              /\ Len(answer) = 1
              /\ Count(trace, EventOf("synthesize")) = 1
        /\ pc \in Returned => (Len(response) = 1 /\ response[1].answer = answer[1])
        /\ pc \in (Returned \ { "print_answer" }) =>
              stdout[1] = [label |-> "ANSWER", value |-> answer[1]]
        /\ pc = "done" => (closeCalls = 1 /\ failedAt = "")
        /\ failedAt # "" => failedAt = "synthesize"

C9_Witness ==
    /\ pc = "done" /\ context = Some(<<>>)
    /\ Len(stdout) >= 2 /\ closeCalls = 1

\* C10: in the query-translation script the one string executed against the
\* database is the string the generation model returned, the retriever
\* reports that same string as metadata["cypher"] next to the rows, and that
\* is what the response carries and the script prints.
C10_GeneratedQueryRunVerbatim ==
    variant = "text2cypher" =>
        /\ executed # <<>> => (Len(cypher) = 1 /\ executed = << cypher[1] >>)
        /\ Len(retrieved) = 1 =>
              /\ executed = << cypher[1] >>
              /\ retrieved[1].metadata["cypher"] = cypher[1]
        /\ Len(response) = 1 =>
              /\ response[1].retriever_result[1].metadata["cypher"] = cypher[1]
              /\ response[1].retriever_result[1].items = Items
        /\ Len(stdout) >= 2 => stdout[2] = [label |-> "CYPHER :", value |-> cypher[1]]

C10_Witness ==
    /\ variant = "text2cypher" /\ pc = "done"
    /\ cypher = Some("MATCH (m:Movie) DETACH DELETE m")
    /\ executed = << "MATCH (m:Movie) DETACH DELETE m" >>
    /\ Len(Items) > 0

====
